---- MODULE Spec2Model ----
(***************************************************************************)
(* The loan state machine of invenio-circulation: the transition table of  *)
(* config.py, the engine of ext.py (_Circulation.trigger), the custom      *)
(* transitions of transitions/transitions.py and the policies of utils.py. *)
(*                                                                         *)
(* transitions/base.py, transitions/conditions.py and errors.py are not    *)
(* part of the sources at hand.  What they do is fixed by their call sites *)
(* (every `before` starts with super().before(loan, **kwargs) and then     *)
(* reads the keyword arguments from the loan) and by the specification.    *)
(***************************************************************************)
EXTENDS Integers, Sequences, FiniteSets, TLC

VARIABLES
    loan,           \* the loan record, mutated in place by trigger
    item_location,  \* what CIRCULATION_ITEM_LOCATION_RETRIEVER returns
    outcome,        \* how the last trigger call ended
    engine,         \* the _Circulation instance: its configuration, its table
    loans,          \* the loans of the item, by loan pid
    calls,          \* the trigger call that runs on each of these loans
    history         \* the states the loan has left, in the order it left them

vars == <<loan, item_location, outcome, engine, loans, calls, history>>

----------------------------------------------------------------------------
(* Bounds of the model *)

\* the days are 0, DayStep, .., MaxDay * DayStep
MaxDay == 2
DayStep == 40

----------------------------------------------------------------------------
(* Values *)

\* None, or a key that is absent from the record / from kwargs
NoLocation == "none"
\* the locations the item can be at, and the one the calls name
Locations == {"loc_a", "loc_b"}
CallLocations == {"loc_a"}

\* A date value is a day together with the way it is written:
\*   "iso"      the string datetime.isoformat() produces
\*   "basic"    another ISO-8601 spelling ciso8601 accepts (20180201T0930+02)
\*   "bad"      a string ciso8601 rejects ('2018-xx')
\*   "datetime" a datetime object
\*   "none"     None or absent
NoDate == [d |-> 0, form |-> "none"]
BadDate == [d |-> 0, form |-> "bad"]
Days == {i * DayStep : i \in 0 .. MaxDay}
DateStr(d, f) == [d |-> d, form |-> f]

\* loan.get('state') of a record without a state: None
NoState == "none"
\* the states a record that Loan.create did not make may carry: none, the
\* empty string, a name the table has no key for
InvalidStates == {NoState, "", "UNKNOWN"}

NoTrigger == "none"
TriggerNames == {"request", "checkout", "cancel"}

LoanStates == {"CREATED", "PENDING", "ITEM_AT_DESK",
               "ITEM_IN_TRANSIT_FOR_PICKUP", "ITEM_ON_LOAN",
               "ITEM_IN_TRANSIT_TO_HOUSE", "ITEM_RETURNED", "CANCELLED"}

\* get_default_loan_duration
get_default_loan_duration == 30
\* timedelta(days=60) of is_loan_valid
MaxLoanDuration == 60

----------------------------------------------------------------------------
(* config.py *)

T(dest, trigger, transition) ==
    [dest |-> dest, trigger |-> trigger, transition |-> transition]

Transitions_CREATED ==
    <<T("PENDING", "request", "CreatedToPending"),
      T("ITEM_ON_LOAN", "checkout", "CreatedToItemOnLoan")>>

Transitions_PENDING ==
    <<T("ITEM_AT_DESK", NoTrigger, "PendingToItemAtDesk"),
      T("ITEM_IN_TRANSIT_FOR_PICKUP", NoTrigger,
        "PendingToItemInTransitPickup"),
      T("CANCELLED", "cancel", "Transition")>>

Transitions_ITEM_AT_DESK ==
    <<T("ITEM_ON_LOAN", NoTrigger, "ItemAtDeskToItemOnLoan"),
      T("CANCELLED", "cancel", "Transition")>>

\* faulty variant: the edge out of transit leads past the desk
Transitions_ITEM_IN_TRANSIT_FOR_PICKUP_WrongDest ==
    <<T("ITEM_ON_LOAN", NoTrigger, "Transition"),
      T("CANCELLED", "cancel", "Transition")>>

\* faulty variant: the edge out of transit has the guard of the edge into
\* the desk
Transitions_ITEM_IN_TRANSIT_FOR_PICKUP_Guarded ==
    <<T("ITEM_AT_DESK", NoTrigger, "PendingToItemAtDesk"),
      T("CANCELLED", "cancel", "Transition")>>

Transitions_ITEM_IN_TRANSIT_FOR_PICKUP ==
    <<T("ITEM_AT_DESK", NoTrigger, "Transition"),
      T("CANCELLED", "cancel", "Transition")>>

Transitions_ITEM_ON_LOAN ==
    <<T("ITEM_RETURNED", NoTrigger, "ItemOnLoanToItemReturned"),
      T("ITEM_IN_TRANSIT_TO_HOUSE", NoTrigger,
        "ItemOnLoanToItemInTransitHouse"),
      T("CANCELLED", "cancel", "Transition")>>

\* faulty variant: the cancel edge is automatic and comes first
Transitions_ITEM_IN_TRANSIT_TO_HOUSE_CancelAutomatic ==
    <<T("CANCELLED", NoTrigger, "Transition"),
      T("ITEM_RETURNED", NoTrigger, "Transition")>>

Transitions_ITEM_IN_TRANSIT_TO_HOUSE ==
    <<T("ITEM_RETURNED", NoTrigger, "Transition"),
      T("CANCELLED", "cancel", "Transition")>>

\* faulty variant: a returned loan can be taken out again
Transitions_ITEM_RETURNED_Reopened ==
    <<T("ITEM_ON_LOAN", NoTrigger, "Transition")>>

Transitions_ITEM_RETURNED == <<>>

\* faulty variant: a cancelled loan can be requested again
Transitions_CANCELLED_Requested ==
    <<T("PENDING", "request", "Transition")>>

Transitions_CANCELLED == <<>>

CIRCULATION_LOAN_TRANSITIONS ==
    [s \in LoanStates |->
        CASE s = "CREATED" -> Transitions_CREATED
          [] s = "PENDING" -> Transitions_PENDING
          [] s = "ITEM_AT_DESK" -> Transitions_ITEM_AT_DESK
          [] s = "ITEM_IN_TRANSIT_FOR_PICKUP" ->
               Transitions_ITEM_IN_TRANSIT_FOR_PICKUP
          [] s = "ITEM_ON_LOAN" -> Transitions_ITEM_ON_LOAN
          [] s = "ITEM_IN_TRANSIT_TO_HOUSE" ->
               Transitions_ITEM_IN_TRANSIT_TO_HOUSE
          [] s = "ITEM_RETURNED" -> Transitions_ITEM_RETURNED
          [] s = "CANCELLED" -> Transitions_CANCELLED]

CIRCULATION_LOAN_INITIAL_STATE == "CREATED"

CIRCULATION_STATES_ITEM_AVAILABLE == {"ITEM_RETURNED"}

----------------------------------------------------------------------------
(* Outcomes of a step of the engine *)

\* TransitionValidationFailed and its subclass TransitionConditionsFailed:
\* the soft rejections the engine catches
SoftErrors == {"TransitionValidationFailed", "TransitionConditionsFailed"}

Ok(l) == [status |-> "ok", loan |-> l]
Raise(err, l) == [status |-> err, loan |-> l]

----------------------------------------------------------------------------
(* utils.py *)

\* parse_date: falsy values and datetime objects are returned as they are,
\* a string goes through ciso8601.parse_datetime.
parse_date(x) ==
    IF x.form = "none" THEN [status |-> "ok", value |-> x]
    ELSE IF x.form = "datetime" THEN [status |-> "ok", value |-> x]
    ELSE IF x.form = "bad" THEN [status |-> "ValueError", value |-> x]
    ELSE [status |-> "ok", value |-> [d |-> x.d, form |-> "datetime"]]

\* datetime.isoformat()
isoformat(dt) == [d |-> dt.d, form |-> "iso"]

\* is_loan_valid: TRUE, or raises TransitionPoliciesViolation
is_loan_valid(l, start_date, end_date) ==
    IF end_date.d - start_date.d > MaxLoanDuration
    THEN "TransitionPoliciesViolation"
    ELSE "ok"

\* is_item_available, the policy of the configuration
is_item_available(item_pid) == TRUE

\* item_location_retriever, as the configuration binds it
item_location_retriever(loc, item_pid) == loc

----------------------------------------------------------------------------
(* transitions/conditions.py, transitions/base.py *)

is_same_location(loc, item_pid, location_pid) ==
    item_location_retriever(loc, item_pid) = location_pid

\* dict.update(kwargs): the keys the call passes replace the loan's
update(l, kw) ==
    [l EXCEPT
       !.pickup_location_pid =
           IF kw.pickup_location_pid = NoLocation THEN @
           ELSE kw.pickup_location_pid,
       !.transaction_location_pid = kw.transaction_location_pid,
       !.transaction_date = kw.transaction_date,
       !.start_date = IF kw.start_date = NoDate THEN @ ELSE kw.start_date,
       !.end_date = IF kw.end_date = NoDate THEN @ ELSE kw.end_date]

\* Transition.before: a candidate whose trigger name is not the one of the
\* call is rejected softly; otherwise the call's arguments go into the loan.
Transition_before(t, l, kw) ==
    IF kw.trigger # t.trigger
    THEN Raise("TransitionValidationFailed", l)
    ELSE Ok(update(l, kw))

\* Transition.after
Transition_after(t, l) == l

----------------------------------------------------------------------------
(* transitions/transitions.py *)

\* faulty variant: start_date is set to the transaction date even when one is given
_ensure_valid_loan_StartOverwritten(l) ==
    LET l1 == [l EXCEPT !.start_date = l.transaction_date]
        ps == parse_date(l1.start_date)
        pe == parse_date(l1.end_date)
        start_date == ps.value
        end_date == IF pe.value = NoDate
                    THEN [d |-> start_date.d + get_default_loan_duration,
                          form |-> "datetime"]
                    ELSE pe.value
        valid == is_loan_valid(l1, start_date, end_date)
    IN  IF ps.status # "ok" THEN Raise(ps.status, l1)
        ELSE IF pe.status # "ok" THEN Raise(pe.status, l1)
        ELSE IF end_date.d < start_date.d
             THEN Raise("TransitionConstraintsViolation", l1)
        ELSE IF valid # "ok" THEN Raise(valid, l1)
        ELSE Ok([l1 EXCEPT !.start_date = isoformat(start_date),
                           !.end_date = isoformat(end_date)])

\* faulty variant: the order of the two dates is not checked
_ensure_valid_loan_NoOrderCheck(l) ==
    LET l1 == IF l.start_date = NoDate
              THEN [l EXCEPT !.start_date = l.transaction_date]
              ELSE l
        ps == parse_date(l1.start_date)
        pe == parse_date(l1.end_date)
        start_date == ps.value
        end_date == IF pe.value = NoDate
                    THEN [d |-> start_date.d + get_default_loan_duration,
                          form |-> "datetime"]
                    ELSE pe.value
        valid == is_loan_valid(l1, start_date, end_date)
    IN  IF ps.status # "ok" THEN Raise(ps.status, l1)
        ELSE IF pe.status # "ok" THEN Raise(pe.status, l1)
        ELSE IF valid # "ok" THEN Raise(valid, l1)
        ELSE Ok([l1 EXCEPT !.start_date = isoformat(start_date),
                           !.end_date = isoformat(end_date)])

_ensure_valid_loan(l) ==
    LET l1 == IF l.start_date = NoDate
              THEN [l EXCEPT !.start_date = l.transaction_date]
              ELSE l
        ps == parse_date(l1.start_date)
        pe == parse_date(l1.end_date)
        start_date == ps.value
        end_date == IF pe.value = NoDate
                    THEN [d |-> start_date.d + get_default_loan_duration,
                          form |-> "datetime"]
                    ELSE pe.value
        valid == is_loan_valid(l1, start_date, end_date)
    IN  IF ps.status # "ok" THEN Raise(ps.status, l1)
        ELSE IF pe.status # "ok" THEN Raise(pe.status, l1)
        ELSE IF end_date.d < start_date.d
             THEN Raise("TransitionConstraintsViolation", l1)
        ELSE IF valid # "ok" THEN Raise(valid, l1)
        ELSE Ok([l1 EXCEPT !.start_date = isoformat(start_date),
                           !.end_date = isoformat(end_date)])

\* faulty variant: no pickup location is derived
CreatedToPending_before_NoDefault(t, l, kw, loc) ==
    Transition_before(t, l, kw)

\* faulty variant: the pickup location is always the item's location
CreatedToPending_before_AlwaysItemLocation(t, l, kw, loc) ==
    LET b == Transition_before(t, l, kw)
    IN  IF b.status # "ok" THEN b
        ELSE Ok([b.loan EXCEPT !.pickup_location_pid =
                    item_location_retriever(loc, b.loan.item_pid)])

CreatedToPending_before(t, l, kw, loc) ==
    LET b == Transition_before(t, l, kw)
    IN  IF b.status # "ok" THEN b
        ELSE IF b.loan.pickup_location_pid = NoLocation
             THEN Ok([b.loan EXCEPT !.pickup_location_pid =
                         item_location_retriever(loc, b.loan.item_pid)])
             ELSE b

CreatedToItemOnLoan_before(t, l, kw, loc) ==
    LET b == Transition_before(t, l, kw)
    IN  IF b.status # "ok" THEN b ELSE _ensure_valid_loan(b.loan)

\* faulty variant: the location of the item is not looked at
PendingToItemAtDesk_before_NoCheck(t, l, kw, loc) ==
    Transition_before(t, l, kw)

PendingToItemAtDesk_before(t, l, kw, loc) ==
    LET b == Transition_before(t, l, kw)
    IN  IF b.status # "ok" THEN b
        ELSE IF ~ is_same_location(loc, b.loan.item_pid,
                                   b.loan.pickup_location_pid)
             THEN Raise("TransitionConditionsFailed", b.loan)
             ELSE b

PendingToItemInTransitPickup_before(t, l, kw, loc) ==
    LET b == Transition_before(t, l, kw)
    IN  IF b.status # "ok" THEN b
        ELSE IF is_same_location(loc, b.loan.item_pid,
                                 b.loan.pickup_location_pid)
             THEN Raise("TransitionConditionsFailed", b.loan)
             ELSE b

\* The dates are parsed into the loan, then the call of
\* _ensure_valid_loan_duration, a name the module does not define, raises
\* NameError.
ItemAtDeskToItemOnLoan_before(t, l, kw, loc) ==
    LET b == Transition_before(t, l, kw)
        ps == parse_date(b.loan.start_date)
        l1 == [b.loan EXCEPT !.start_date = ps.value]
        pe == parse_date(l1.end_date)
        l2 == [l1 EXCEPT !.end_date = pe.value]
    IN  IF b.status # "ok" THEN b
        ELSE IF ps.status # "ok" THEN Raise(ps.status, b.loan)
        ELSE IF pe.status # "ok" THEN Raise(pe.status, l1)
        ELSE Raise("NameError", l2)

\* faulty variant: the guard of ItemOnLoanToItemReturned, copied unchanged
ItemOnLoanToItemInTransitHouse_before_SameGuard(t, l, kw, loc) ==
    LET b == Transition_before(t, l, kw)
    IN  IF b.status # "ok" THEN b
        ELSE IF ~ is_same_location(loc, b.loan.item_pid,
                                   b.loan.transaction_location_pid)
             THEN Raise("TransitionConditionsFailed", b.loan)
             ELSE Ok([b.loan EXCEPT !.end_date = b.loan.transaction_date])

ItemOnLoanToItemInTransitHouse_before(t, l, kw, loc) ==
    LET b == Transition_before(t, l, kw)
    IN  IF b.status # "ok" THEN b
        ELSE IF is_same_location(loc, b.loan.item_pid,
                                 b.loan.transaction_location_pid)
             THEN Raise("TransitionConditionsFailed", b.loan)
             ELSE Ok([b.loan EXCEPT !.end_date = b.loan.transaction_date])

\* faulty variant: end_date is left as the checkout set it
ItemOnLoanToItemReturned_before_KeepsEndDate(t, l, kw, loc) ==
    LET b == Transition_before(t, l, kw)
    IN  IF b.status # "ok" THEN b
        ELSE IF ~ is_same_location(loc, b.loan.item_pid,
                                   b.loan.transaction_location_pid)
             THEN Raise("TransitionConditionsFailed", b.loan)
             ELSE b

ItemOnLoanToItemReturned_before(t, l, kw, loc) ==
    LET b == Transition_before(t, l, kw)
    IN  IF b.status # "ok" THEN b
        ELSE IF ~ is_same_location(loc, b.loan.item_pid,
                                   b.loan.transaction_location_pid)
             THEN Raise("TransitionConditionsFailed", b.loan)
             ELSE Ok([b.loan EXCEPT !.end_date = b.loan.transaction_date])

\* the `before` of the class the table names for the candidate
before(t, l, kw, loc) ==
    CASE t.transition = "CreatedToPending" ->
           CreatedToPending_before(t, l, kw, loc)
      [] t.transition = "CreatedToItemOnLoan" ->
           CreatedToItemOnLoan_before(t, l, kw, loc)
      [] t.transition = "PendingToItemAtDesk" ->
           PendingToItemAtDesk_before(t, l, kw, loc)
      [] t.transition = "PendingToItemInTransitPickup" ->
           PendingToItemInTransitPickup_before(t, l, kw, loc)
      [] t.transition = "ItemAtDeskToItemOnLoan" ->
           ItemAtDeskToItemOnLoan_before(t, l, kw, loc)
      [] t.transition = "ItemOnLoanToItemInTransitHouse" ->
           ItemOnLoanToItemInTransitHouse_before(t, l, kw, loc)
      [] t.transition = "ItemOnLoanToItemReturned" ->
           ItemOnLoanToItemReturned_before(t, l, kw, loc)
      [] OTHER -> Transition_before(t, l, kw)

\* Transition.execute: before, the state change, after
execute(t, l, kw, loc) ==
    LET b == before(t, l, kw, loc)
    IN  IF b.status # "ok" THEN b
        ELSE Ok(Transition_after(t, [b.loan EXCEPT !.state = t.dest]))

----------------------------------------------------------------------------
(* ext.py *)

\* _cls(**dict(t, src=src_state)): the Transition of one spec, bound to its
\* source state; the constructor refuses a source or a destination that is
\* not a loan state
Transition_init(src, t) ==
    IF src \notin LoanStates \/ t.dest \notin LoanStates
    THEN [status |-> "ConstructionError", instance |-> <<>>]
    ELSE [status |-> "ok",
          instance |-> [src |-> src, dest |-> t.dest, trigger |-> t.trigger,
                        transition |-> t.transition]]

\* faulty variant: the specs are copied into the table, no Transition is
\* constructed
Circulation_init_NoInstances(transitions_config) ==
    [status |-> "ok",
     transitions |->
        [s \in DOMAIN transitions_config |->
            [i \in 1 .. Len(transitions_config[s]) |->
                [src |-> s,
                 dest |-> transitions_config[s][i].dest,
                 trigger |-> transitions_config[s][i].trigger,
                 transition |-> transitions_config[s][i].transition]]]]

\* _Circulation.__init__: one Transition per spec, in the order of the
\* configuration, bound to its source state; a constructor that raises ends
\* the construction
Circulation_init(transitions_config) ==
    LET made(s, i) == Transition_init(s, transitions_config[s][i])
    IN  IF \E s \in DOMAIN transitions_config :
               \E i \in 1 .. Len(transitions_config[s]) :
                   made(s, i).status # "ok"
        THEN [status |-> "ConstructionError", transitions |-> <<>>]
        ELSE [status |-> "ok",
              transitions |->
                 [s \in DOMAIN transitions_config |->
                     [i \in 1 .. Len(transitions_config[s]) |->
                         made(s, i).instance]]]

\* self.transitions of the engine of the default configuration
BuiltDefault == Circulation_init(CIRCULATION_LOAN_TRANSITIONS)
transitions == BuiltDefault.transitions

\* faulty variant: only a missing or empty state is refused
_validate_current_state_FalsyOnly(state) ==
    IF state \in {NoState, ""}
    THEN "InvalidState"
    ELSE "ok"

\* _Circulation._validate_current_state
_validate_current_state(state) ==
    IF state \in {NoState, ""} \/ state \notin DOMAIN transitions
    THEN "InvalidState"
    ELSE "ok"

\* faulty variant: the loop ends without raising NoValidTransitionAvailable
RECURSIVE trigger_loop_NoRaise(_, _, _, _, _, _)
trigger_loop_NoRaise(cands, i, l, kw, loc, tried) ==
    IF i > Len(cands)
    THEN [status |-> "ok", loan |-> l, tried |-> tried, applied |-> <<>>]
    ELSE LET r == execute(cands[i], l, kw, loc)
         IN  IF r.status = "ok"
             THEN [status |-> "ok", loan |-> r.loan,
                   tried |-> Append(tried, i), applied |-> <<i>>]
             ELSE IF r.status \in SoftErrors
             THEN trigger_loop_NoRaise(cands, i + 1, r.loan, kw, loc,
                                       Append(tried, i))
             ELSE [status |-> r.status, loan |-> r.loan,
                   tried |-> Append(tried, i), applied |-> <<>>]

\* faulty variant: TransitionValidationFailed is not caught
trigger_loop_NoCatch(cands, i, l, kw, loc, tried) ==
    IF i > Len(cands)
    THEN [status |-> "NoValidTransitionAvailable", loan |-> l,
          tried |-> tried, applied |-> <<>>]
    ELSE LET r == execute(cands[i], l, kw, loc)
         IN  IF r.status = "ok"
             THEN [status |-> "ok", loan |-> r.loan,
                   tried |-> Append(tried, i), applied |-> <<i>>]
             ELSE [status |-> r.status, loan |-> r.loan,
                   tried |-> Append(tried, i), applied |-> <<>>]

\* faulty variant: every exception is caught, not only TransitionValidationFailed
RECURSIVE trigger_loop_CatchAll(_, _, _, _, _, _)
trigger_loop_CatchAll(cands, i, l, kw, loc, tried) ==
    IF i > Len(cands)
    THEN [status |-> "NoValidTransitionAvailable", loan |-> l,
          tried |-> tried, applied |-> <<>>]
    ELSE LET r == execute(cands[i], l, kw, loc)
         IN  IF r.status = "ok"
             THEN [status |-> "ok", loan |-> r.loan,
                   tried |-> Append(tried, i), applied |-> <<i>>]
             ELSE trigger_loop_CatchAll(cands, i + 1, r.loan, kw, loc,
                                        Append(tried, i))

\* faulty variant: the loop goes on after a candidate has committed
RECURSIVE trigger_loop_NoReturn(_, _, _, _, _, _)
trigger_loop_NoReturn(cands, i, l, kw, loc, tried) ==
    IF i > Len(cands)
    THEN [status |-> "NoValidTransitionAvailable", loan |-> l,
          tried |-> tried, applied |-> <<>>]
    ELSE LET r == execute(cands[i], l, kw, loc)
         IN  IF r.status = "ok" \/ r.status \in SoftErrors
             THEN trigger_loop_NoReturn(cands, i + 1, r.loan, kw, loc,
                                        Append(tried, i))
             ELSE [status |-> r.status, loan |-> r.loan,
                   tried |-> Append(tried, i), applied |-> <<>>]

\* The loop of _Circulation.trigger from candidate i on.  `tried` lists the
\* candidates whose execute was called, `applied` the ones that committed.
RECURSIVE trigger_loop(_, _, _, _, _, _)
trigger_loop(cands, i, l, kw, loc, tried) ==
    IF i > Len(cands)
    THEN [status |-> "NoValidTransitionAvailable", loan |-> l,
          tried |-> tried, applied |-> <<>>]
    ELSE LET r == execute(cands[i], l, kw, loc)
         IN  IF r.status = "ok"
             THEN [status |-> "ok", loan |-> r.loan,
                   tried |-> Append(tried, i), applied |-> <<i>>]
             ELSE IF r.status \in SoftErrors
             THEN trigger_loop(cands, i + 1, r.loan, kw, loc,
                               Append(tried, i))
             ELSE [status |-> r.status, loan |-> r.loan,
                   tried |-> Append(tried, i), applied |-> <<>>]

\* _Circulation.trigger
trigger(l, kw, loc) ==
    IF _validate_current_state(l.state) # "ok"
    THEN [status |-> "InvalidState", loan |-> l,
          tried |-> <<>>, applied |-> <<>>]
    ELSE IF l.state \notin DOMAIN transitions
    THEN [status |-> "KeyError", loan |-> l,
          tried |-> <<>>, applied |-> <<>>]
    ELSE trigger_loop(transitions[l.state], 1, l, kw, loc, <<>>)

----------------------------------------------------------------------------
(* The state machine: one loan, the calls made on it, the item moving *)

\* keyword arguments a caller may pass
\* (a transaction happens, and a loan starts, on day 0 or on day DayStep;
\* a loan ends on any of the days)
TransactionDates == {DateStr(0, "iso"), DateStr(DayStep, "iso")}
StartDates == TransactionDates \cup {DateStr(0, "basic"), BadDate}
EndDates == {DateStr(d, "iso") : d \in Days} \cup {BadDate}

Kwargs ==
    [trigger : TriggerNames \cup {NoTrigger},
     pickup_location_pid : CallLocations \cup {NoLocation},
     transaction_location_pid : CallLocations,
     transaction_date : TransactionDates,
     start_date : StartDates \cup {NoDate},
     end_date : EndDates \cup {NoDate}]

\* Loan.create: a loan in the initial state for one item
NewLoan ==
    [state |-> CIRCULATION_LOAN_INITIAL_STATE,
     item_pid |-> "item_pid",
     pickup_location_pid |-> NoLocation,
     transaction_location_pid |-> NoLocation,
     transaction_date |-> NoDate,
     start_date |-> NoDate,
     end_date |-> NoDate]

\* the records trigger is called on: a new loan, or a record whose state is
\* not one of the table
StartLoans ==
    {[NewLoan EXCEPT !.state = s] :
        s \in {CIRCULATION_LOAN_INITIAL_STATE} \cup InvalidStates}

\* no call made yet
NoOutcome ==
    [status |-> "none", trigger |-> NoTrigger, src |-> "",
     tried |-> <<>>, applied |-> <<>>]

\* the engine before InvenioCirculation.circulation is first read
NoEngine == [status |-> "none", config |-> <<>>, transitions |-> <<>>]

\* One loan and the calls made on it, each call run to its end, on the
\* engine of the default configuration (the table `transitions`).
Init ==
    /\ loan \in StartLoans
    /\ item_location \in Locations
    /\ outcome = NoOutcome
    /\ engine = NoEngine
    /\ loans = <<>>
    /\ calls = <<>>
    /\ history = <<>>

\* current_circulation.circulation.trigger(loan, **kw)
Trigger ==
    \E kw \in Kwargs :
        LET r == trigger(loan, kw, item_location)
        IN  /\ loan' = r.loan
            /\ outcome' = [status |-> r.status, trigger |-> kw.trigger,
                           src |-> loan.state, tried |-> r.tried,
                           applied |-> r.applied]
            /\ history' = IF r.status = "ok"
                          THEN Append(history, loan.state)
                          ELSE history
            /\ UNCHANGED <<item_location, engine, loans, calls>>

\* the item is moved: the location retriever answers differently from now on
MoveItem ==
    /\ item_location' \in Locations \ {item_location}
    /\ UNCHANGED <<loan, outcome, engine, loans, calls, history>>

Next == Trigger \/ MoveItem

Spec == Init /\ [][Next]_vars

----------------------------------------------------------------------------
(* The loans of one item on one engine, the calls taken candidate by        *)
(* candidate, so that the calls on two loans interleave                     *)

\* configurations an application may set in CIRCULATION_LOAN_TRANSITIONS:
\* the default one, one with a destination that is no loan state, one with
\* a transition under a source key that is no loan state, one with such a
\* key and no transition under it
Config_UnknownDestination ==
    [CIRCULATION_LOAN_TRANSITIONS EXCEPT
        !["ITEM_IN_TRANSIT_TO_HOUSE"] =
            <<T("RETURNED", NoTrigger, "Transition"),
              T("CANCELLED", "cancel", "Transition")>>]
Config_UnknownSource ==
    [s \in LoanStates \cup {"ARCHIVED"} |->
        IF s = "ARCHIVED"
        THEN <<T("CREATED", NoTrigger, "Transition")>>
        ELSE CIRCULATION_LOAN_TRANSITIONS[s]]
Config_UnknownSourceNoSpec ==
    [s \in LoanStates \cup {"ARCHIVED"} |->
        IF s = "ARCHIVED" THEN <<>> ELSE CIRCULATION_LOAN_TRANSITIONS[s]]
Configs ==
    {CIRCULATION_LOAN_TRANSITIONS, Config_UnknownDestination,
     Config_UnknownSource, Config_UnknownSourceNoSpec}

LoanIds == {"loan_1", "loan_2"}

\* the calls made on these loans: any trigger name, with or without a
\* pickup location, all on day 0 and without dates of their own
LoanCalls ==
    {kw \in Kwargs : /\ kw.transaction_date = DateStr(0, "iso")
                     /\ kw.start_date = NoDate
                     /\ kw.end_date = NoDate}

\* the keyword arguments and the record of a call that is not running
NoKwargs ==
    [trigger |-> NoTrigger, pickup_location_pid |-> NoLocation,
     transaction_location_pid |-> NoLocation, transaction_date |-> NoDate,
     start_date |-> NoDate, end_date |-> NoDate]
IdleCall ==
    [pc |-> "idle", kw |-> NoKwargs, state |-> NoState, next |-> 1,
     before |-> NewLoan, status |-> "none", overlapped |-> FALSE]

\* Loan.get_loans(item_pid, exclude_states): the loans of the item that are
\* in none of the states
get_loans(item_loans, exclude_states) ==
    {i \in DOMAIN item_loans : item_loans[i].state \notin exclude_states}

\* api.is_item_available: the policy agrees and the item has no loan outside
\* the states of CIRCULATION_STATES_ITEM_AVAILABLE
api_is_item_available(item_loans, item_pid) ==
    /\ is_item_available(item_pid)
    /\ get_loans(item_loans, CIRCULATION_STATES_ITEM_AVAILABLE) = {}

\* _Circulation.trigger up to the loop: the state is read and validated
\* against the table of the engine
trigger_begin(tbl, l, kw) ==
    IF l.state \in {NoState, ""} \/ l.state \notin DOMAIN tbl
    THEN [pc |-> "done", kw |-> kw, state |-> l.state, next |-> 1,
          before |-> l, status |-> "InvalidState", overlapped |-> FALSE]
    ELSE [pc |-> "running", kw |-> kw, state |-> l.state, next |-> 1,
          before |-> l, status |-> "none", overlapped |-> FALSE]

\* faulty variant: the loop takes its candidate out of the table
trigger_step_PopsCandidate(tbl, c, l, loc) ==
    IF tbl[c.state] = <<>>
    THEN [call |-> [c EXCEPT !.pc = "done",
                             !.status = "NoValidTransitionAvailable"],
          loan |-> l, transitions |-> tbl]
    ELSE LET r == execute(Head(tbl[c.state]), l, c.kw, loc)
             rest == [tbl EXCEPT ![c.state] = Tail(@)]
         IN  IF r.status = "ok"
             THEN [call |-> [c EXCEPT !.pc = "done", !.status = "ok"],
                   loan |-> r.loan, transitions |-> rest]
             ELSE IF r.status \in SoftErrors
             THEN [call |-> [c EXCEPT !.next = @ + 1],
                   loan |-> r.loan, transitions |-> rest]
             ELSE [call |-> [c EXCEPT !.pc = "done", !.status = r.status],
                   loan |-> r.loan, transitions |-> rest]

\* One turn of the loop of _Circulation.trigger: the candidate the call has
\* come to is executed; the table is read, not written.
trigger_step(tbl, c, l, loc) ==
    IF c.next > Len(tbl[c.state])
    THEN [call |-> [c EXCEPT !.pc = "done",
                             !.status = "NoValidTransitionAvailable"],
          loan |-> l, transitions |-> tbl]
    ELSE LET r == execute(tbl[c.state][c.next], l, c.kw, loc)
         IN  IF r.status = "ok"
             THEN [call |-> [c EXCEPT !.pc = "done", !.status = "ok"],
                   loan |-> r.loan, transitions |-> tbl]
             ELSE IF r.status \in SoftErrors
             THEN [call |-> [c EXCEPT !.next = @ + 1],
                   loan |-> r.loan, transitions |-> tbl]
             ELSE [call |-> [c EXCEPT !.pc = "done", !.status = r.status],
                   loan |-> r.loan, transitions |-> tbl]

\* the calls once call i has taken a step and become c: the calls that run
\* on the other loans have been overlapped by it, and so has call i if one
\* of them runs
StepOf(i, c) ==
    [j \in DOMAIN calls |->
        IF j = i
        THEN [c EXCEPT !.overlapped =
                 @ \/ \E k \in DOMAIN calls \ {i} : calls[k].pc = "running"]
        ELSE IF calls[j].pc = "running"
        THEN [calls[j] EXCEPT !.overlapped = TRUE]
        ELSE calls[j]]

InitLoans ==
    /\ loan = NewLoan
    /\ outcome = NoOutcome
    /\ item_location \in Locations
    /\ engine \in {[status |-> "none", config |-> cfg, transitions |-> <<>>] :
                      cfg \in Configs}
    /\ loans = <<>>
    /\ calls = <<>>
    /\ history = <<>>

\* InvenioCirculation.circulation, read for the first time
BuildEngine ==
    /\ engine.status = "none"
    /\ LET built == Circulation_init(engine.config)
       IN  engine' = [engine EXCEPT
                         !.status = IF built.status = "ok"
                                    THEN "built" ELSE "failed",
                         !.transitions = built.transitions]
    /\ UNCHANGED <<loan, item_location, outcome, loans, calls, history>>

\* Loan.create for the item
CreateLoan(i) ==
    /\ i \notin DOMAIN loans
    /\ loans' = loans @@ (i :> NewLoan)
    /\ calls' = calls @@ (i :> IdleCall)
    /\ UNCHANGED <<loan, item_location, outcome, engine, history>>

\* a caller enters trigger(loans[i], **kw) on the engine
BeginTrigger(i) ==
    /\ engine.status = "built"
    /\ i \in DOMAIN loans
    /\ calls[i].pc = "idle"
    /\ \E kw \in LoanCalls :
           calls' = StepOf(i, trigger_begin(engine.transitions, loans[i], kw))
    /\ UNCHANGED <<loan, item_location, outcome, engine, loans, history>>

\* the call on loans[i] goes once round its loop
TryCandidate(i) ==
    /\ i \in DOMAIN loans
    /\ calls[i].pc = "running"
    /\ LET s == trigger_step(engine.transitions, calls[i], loans[i],
                             item_location)
       IN  /\ loans' = [loans EXCEPT ![i] = s.loan]
           /\ calls' = StepOf(i, s.call)
           /\ engine' = [engine EXCEPT !.transitions = s.transitions]
    /\ UNCHANGED <<loan, item_location, outcome, history>>

\* the call on loans[i] has returned or raised; the caller goes on
Return(i) ==
    /\ i \in DOMAIN loans
    /\ calls[i].pc = "done"
    /\ calls' = [calls EXCEPT ![i] = IdleCall]
    /\ UNCHANGED <<loan, item_location, outcome, engine, loans, history>>

NextLoans ==
    \/ BuildEngine
    \/ \E i \in LoanIds : CreateLoan(i)
    \/ \E i \in LoanIds : BeginTrigger(i)
    \/ \E i \in LoanIds : TryCandidate(i)
    \/ \E i \in LoanIds : Return(i)

SpecLoans == InitLoans /\ [][NextLoans]_vars

----------------------------------------------------------------------------
(* Properties *)

\* the result of the call trigger(loan, **kw) made in the current state
Call(kw) == trigger(loan, kw, item_location)

\* the destinations the state machine summary declares for each state
DeclaredDestinations ==
    [s \in LoanStates |->
        CASE s = "CREATED" -> {"PENDING", "ITEM_ON_LOAN"}
          [] s = "PENDING" ->
               {"ITEM_AT_DESK", "ITEM_IN_TRANSIT_FOR_PICKUP", "CANCELLED"}
          [] s = "ITEM_AT_DESK" -> {"ITEM_ON_LOAN", "CANCELLED"}
          [] s = "ITEM_IN_TRANSIT_FOR_PICKUP" -> {"ITEM_AT_DESK", "CANCELLED"}
          [] s = "ITEM_ON_LOAN" ->
               {"ITEM_RETURNED", "ITEM_IN_TRANSIT_TO_HOUSE", "CANCELLED"}
          [] s = "ITEM_IN_TRANSIT_TO_HOUSE" -> {"ITEM_RETURNED", "CANCELLED"}
          [] OTHER -> {}]

TerminalStates == {"ITEM_RETURNED", "CANCELLED"}

CancelStates == {"PENDING", "ITEM_AT_DESK", "ITEM_IN_TRANSIT_FOR_PICKUP",
                 "ITEM_ON_LOAN", "ITEM_IN_TRANSIT_TO_HOUSE"}

\* C1: a trigger call that returns successfully has committed exactly one
\* transition, and the state of the loan after it is one of the destinations
\* declared for the state the loan was in.
C1_OneDeclaredTransition ==
    outcome.status = "ok" =>
        /\ Len(outcome.applied) = 1
        /\ loan.state \in DeclaredDestinations[outcome.src]

C1_Witness ==
    /\ outcome.status = "ok"
    /\ outcome.src = "ITEM_ON_LOAN"
    /\ loan.state = "ITEM_IN_TRANSIT_TO_HOUSE"

\* C2: on a loan in a terminal state every trigger call, whatever its trigger
\* name and context, fails with NoValidTransitionAvailable and leaves the
\* state as it is, so the state never changes again.
C2_TerminalStatesAreFinal ==
    loan.state \in TerminalStates =>
        \A kw \in Kwargs :
            LET r == Call(kw)
            IN  /\ r.status = "NoValidTransitionAvailable"
                /\ r.loan.state = loan.state

C2_Witness ==
    /\ outcome.src = "ITEM_RETURNED"
    /\ outcome.status = "NoValidTransitionAvailable"
    /\ loan.state = "ITEM_RETURNED"

\* C3: a call with trigger name 'cancel' on a loan in a state that declares a
\* cancel edge succeeds and leaves the loan CANCELLED, wherever the item is
\* and whatever the context of the call.
C3_CancelSucceeds ==
    loan.state \in CancelStates =>
        \A kw \in Kwargs :
            kw.trigger = "cancel" =>
                LET r == Call(kw)
                IN  /\ r.status = "ok"
                    /\ r.loan.state = "CANCELLED"

C3_Witness ==
    /\ outcome.src = "ITEM_ON_LOAN"
    /\ outcome.trigger = "cancel"
    /\ outcome.status = "ok"
    /\ outcome.applied = <<3>>
    /\ loan.state = "CANCELLED"

\* the trigger names the candidates of a state declare
DeclaredTriggers(s) ==
    {transitions[s][i].trigger : i \in DOMAIN transitions[s]}

\* C4: a call with an explicit trigger name that no candidate of the current
\* state declares fails with NoValidTransitionAvailable; no candidate with
\* another trigger name and no automatic candidate is applied.
C4_UnknownTriggerFails ==
    loan.state \in LoanStates =>
        \A kw \in Kwargs :
            (/\ kw.trigger # NoTrigger
             /\ kw.trigger \notin DeclaredTriggers(loan.state))
                => LET r == Call(kw)
                   IN  /\ r.status = "NoValidTransitionAvailable"
                       /\ r.applied = <<>>
                       /\ r.loan.state = loan.state

C4_Witness ==
    /\ outcome.src = "CREATED"
    /\ outcome.trigger = "cancel"
    /\ outcome.status = "NoValidTransitionAvailable"
    /\ loan.state = "CREATED"

\* C5: a call without a trigger name on a PENDING loan succeeds; the loan
\* goes to ITEM_AT_DESK when the item is at the pickup location and to
\* ITEM_IN_TRANSIT_FOR_PICKUP when it is not.
C5_PendingOutcomes ==
    loan.state = "PENDING" =>
        \A kw \in Kwargs :
            kw.trigger = NoTrigger =>
                LET r == Call(kw)
                IN  /\ r.status = "ok"
                    /\ r.loan.state =
                           IF item_location = r.loan.pickup_location_pid
                           THEN "ITEM_AT_DESK"
                           ELSE "ITEM_IN_TRANSIT_FOR_PICKUP"

C5_Witness ==
    /\ outcome.src = "PENDING"
    /\ outcome.trigger = NoTrigger
    /\ outcome.applied = <<2>>
    /\ loan.state = "ITEM_IN_TRANSIT_FOR_PICKUP"
    /\ loan.pickup_location_pid # item_location

\* C6: a call without a trigger name on an ITEM_ON_LOAN loan (a check-in)
\* succeeds; the loan goes to ITEM_RETURNED when the item's location is the
\* transaction location and to ITEM_IN_TRANSIT_TO_HOUSE when it is not, and
\* in both cases end_date is the transaction_date of the call.
C6_CheckinOutcomes ==
    loan.state = "ITEM_ON_LOAN" =>
        \A kw \in Kwargs :
            kw.trigger = NoTrigger =>
                LET r == Call(kw)
                IN  /\ r.status = "ok"
                    /\ r.loan.state =
                           IF item_location = kw.transaction_location_pid
                           THEN "ITEM_RETURNED"
                           ELSE "ITEM_IN_TRANSIT_TO_HOUSE"
                    /\ r.loan.end_date = kw.transaction_date

C6_Witness ==
    /\ outcome.src = "ITEM_ON_LOAN"
    /\ outcome.trigger = NoTrigger
    /\ outcome.status = "ok"
    /\ loan.state = "ITEM_RETURNED"
    /\ loan.transaction_location_pid = item_location
    /\ loan.end_date = loan.transaction_date
    /\ loan.end_date.d < loan.start_date.d + get_default_loan_duration

\* the dates a checkout works on: the loan once the arguments of the call
\* are merged into it
Merged(kw) == update(loan, kw)
EffectiveStart(kw) ==
    IF Merged(kw).start_date # NoDate
    THEN Merged(kw).start_date
    ELSE Merged(kw).transaction_date

\* C7, as claimed: after a successful checkout from CREATED start_date is
\* the start_date the caller passed or else the transaction_date, end_date
\* is the end_date the caller passed or else start_date plus the default
\* duration, and the values passed are kept unchanged.
C7_CheckoutDatesAsPassed ==
    loan.state = "CREATED" =>
        \A kw \in Kwargs :
            LET r == Call(kw)
            IN  (kw.trigger = "checkout" /\ r.status = "ok") =>
                    /\ r.loan.start_date =
                           IF kw.start_date # NoDate
                           THEN kw.start_date
                           ELSE kw.transaction_date
                    /\ r.loan.end_date =
                           IF kw.end_date # NoDate
                           THEN kw.end_date
                           ELSE DateStr(r.loan.start_date.d
                                          + get_default_loan_duration, "iso")

\* C7, amended: after a successful checkout from CREATED start_date is, in
\* canonical ISO form, the start_date the loan carries once the arguments of
\* the call are merged into it (the one passed, else the one already on the
\* record), or the transaction_date when there is none; end_date is, in
\* canonical ISO form, the end_date carried in the same way, or start_date
\* plus the default duration when there is none; a value that is already in
\* canonical form is kept unchanged.
C7_CheckoutDatesCanonical ==
    loan.state = "CREATED" =>
        \A kw \in Kwargs :
            LET r == Call(kw)
                m == Merged(kw)
                start == EffectiveStart(kw)
            IN  (kw.trigger = "checkout" /\ r.status = "ok") =>
                    /\ r.loan.start_date = DateStr(start.d, "iso")
                    /\ r.loan.end_date =
                           IF m.end_date # NoDate
                           THEN DateStr(m.end_date.d, "iso")
                           ELSE DateStr(start.d + get_default_loan_duration,
                                        "iso")
                    /\ start.form = "iso" => r.loan.start_date = start
                    /\ m.end_date.form = "iso" => r.loan.end_date = m.end_date

C7_Witness ==
    /\ outcome.src = "CREATED"
    /\ outcome.trigger = "checkout"
    /\ outcome.status = "ok"
    /\ loan.state = "ITEM_ON_LOAN"
    /\ loan.start_date = DateStr(DayStep, "iso")
    /\ loan.transaction_date = DateStr(0, "iso")
    /\ loan.end_date = DateStr(DayStep + get_default_loan_duration, "iso")

\* C8: a checkout of a CREATED loan whose end_date is earlier than its
\* start_date fails with TransitionConstraintsViolation, and the state of
\* the loan is what it was before the call.
C8_InvertedDatesRejected ==
    loan.state = "CREATED" =>
        \A kw \in Kwargs :
            LET r == Call(kw)
                m == Merged(kw)
                start == EffectiveStart(kw)
            IN  (/\ kw.trigger = "checkout"
                 /\ start.form \in {"iso", "basic"}
                 /\ m.end_date.form \in {"iso", "basic"}
                 /\ m.end_date.d < start.d)
                    => /\ r.status = "TransitionConstraintsViolation"
                       /\ r.loan.state = loan.state

C8_Witness ==
    /\ outcome.src = "CREATED"
    /\ outcome.trigger = "checkout"
    /\ outcome.status = "TransitionConstraintsViolation"
    /\ loan.state = "CREATED"
    /\ loan.end_date.d < loan.start_date.d

HardRejections ==
    {"TransitionConstraintsViolation", "TransitionPoliciesViolation"}

\* C9: when the guard of a candidate raises a hard rejection (the candidates
\* before it having been rejected softly), trigger ends with that very error,
\* not with NoValidTransitionAvailable; no later candidate is tried and the
\* state of the loan is not advanced.
C9_HardRejectionAborts ==
    loan.state \in LoanStates =>
        \A kw \in Kwargs :
            \A i \in DOMAIN transitions[loan.state] :
                LET cands == transitions[loan.state]
                    guard(j) == before(cands[j], loan, kw, item_location)
                    raised == guard(i).status
                    r == Call(kw)
                IN  (/\ raised \in HardRejections
                     /\ \A j \in 1 .. i - 1 :
                            /\ guard(j).status \in SoftErrors
                            /\ guard(j).loan = loan)
                        => /\ r.status = raised
                           /\ r.tried = [k \in 1 .. i |-> k]
                           /\ r.applied = <<>>
                           /\ r.loan.state = loan.state

C9_Witness ==
    /\ outcome.src = "CREATED"
    /\ outcome.status = "TransitionPoliciesViolation"
    /\ outcome.tried = <<1, 2>>
    /\ outcome.applied = <<>>
    /\ loan.state = "CREATED"

\* C10: when a trigger call fails with NoValidTransitionAvailable the loan
\* record is, field by field, what it was before the call.
C10_RejectedCallLeavesLoan ==
    \A kw \in Kwargs :
        LET r == Call(kw)
        IN  r.status = "NoValidTransitionAvailable" => r.loan = loan

C10_Witness ==
    /\ outcome.src = "ITEM_ON_LOAN"
    /\ outcome.trigger = "request"
    /\ outcome.status = "NoValidTransitionAvailable"
    /\ outcome.tried = <<1, 2, 3>>
    /\ loan.state = "ITEM_ON_LOAN"
    /\ loan.end_date # NoDate

\* C11: a trigger call on a loan whose state is absent, empty or not a key
\* of the transition table fails with InvalidState; no candidate's guard is
\* run and the loan record is what it was before the call.
C11_InvalidStateRejected ==
    loan.state \notin LoanStates =>
        \A kw \in Kwargs :
            LET r == Call(kw)
            IN  /\ r.status = "InvalidState"
                /\ r.tried = <<>>
                /\ r.applied = <<>>
                /\ r.loan = loan

C11_Witness ==
    /\ outcome.src = "UNKNOWN"
    /\ outcome.trigger = "checkout"
    /\ outcome.status = "InvalidState"
    /\ outcome.tried = <<>>
    /\ loan = [NewLoan EXCEPT !.state = "UNKNOWN"]

\* the direct checkout of the same record with the same arguments: the call
\* with trigger name 'checkout' on the record in state CREATED
DirectCheckout(kw) ==
    trigger([loan EXCEPT !.state = "CREATED"],
            [kw EXCEPT !.trigger = "checkout"], item_location)

\* C12: a call without a trigger name on an ITEM_AT_DESK loan (the at-desk
\* checkout) ends as the direct checkout from CREATED with the same dates
\* does: the loan goes to ITEM_ON_LOAN with the same start_date and end_date,
\* or the call fails with the same hard rejection.
C12_AtDeskCheckoutAsDirect ==
    loan.state = "ITEM_AT_DESK" =>
        \A kw \in Kwargs :
            kw.trigger = NoTrigger =>
                LET r == Call(kw)
                    d == DirectCheckout(kw)
                IN  /\ d.status = "ok" =>
                           /\ r.status = "ok"
                           /\ r.loan.state = "ITEM_ON_LOAN"
                           /\ d.loan.state = "ITEM_ON_LOAN"
                           /\ r.loan.start_date = d.loan.start_date
                           /\ r.loan.end_date = d.loan.end_date
                    /\ d.status \in HardRejections => r.status = d.status

\* a date that is set and that can be ordered: a string ciso8601 reads, or a
\* datetime object
IsSetDate(x) == x.form \in {"iso", "basic", "datetime"}

\* C14: after any sequence of trigger calls on a loan that started CREATED,
\* whenever start_date and end_date are both set, end_date is not earlier
\* than start_date (a check-in, which sets end_date to the transaction_date
\* of the call, included).
C14_EndNotBeforeStart ==
    (IsSetDate(loan.start_date) /\ IsSetDate(loan.end_date))
        => loan.end_date.d >= loan.start_date.d

\* the record as the guards of the candidates before candidate i leave it
RECURSIVE AfterRejections(_, _, _)
AfterRejections(cands, i, kw) ==
    IF i = 1 THEN loan
    ELSE before(cands[i - 1], AfterRejections(cands, i - 1, kw), kw,
                item_location).loan

\* C15: the candidates of the current state are evaluated in the order of
\* the table and the first one whose guard accepts is committed: the call
\* succeeds, the guards run are those of the candidates up to that one, the
\* loan is what that candidate makes of it, and the candidates after it add
\* nothing; when no guard accepts, the call does not succeed.
C15_FirstAcceptedInOrder ==
    loan.state \in LoanStates =>
        \A kw \in Kwargs :
            LET cands == transitions[loan.state]
                accepts(i) == execute(cands[i], AfterRejections(cands, i, kw),
                                      kw, item_location)
                Accepting == {i \in DOMAIN cands : accepts(i).status = "ok"}
                r == Call(kw)
            IN  /\ Accepting # {} =>
                       LET first == CHOOSE i \in Accepting :
                                        \A j \in Accepting : i <= j
                       IN  /\ r.status = "ok"
                           /\ r.applied = <<first>>
                           /\ r.tried = [k \in 1 .. first |-> k]
                           /\ r.loan = accepts(first).loan
                /\ Accepting = {} => r.status # "ok"

C15_Witness ==
    /\ outcome.src = "ITEM_ON_LOAN"
    /\ outcome.trigger = NoTrigger
    /\ outcome.status = "ok"
    /\ outcome.tried = <<1, 2>>
    /\ outcome.applied = <<2>>
    /\ loan.state = "ITEM_IN_TRANSIT_TO_HOUSE"

\* C16: the cancel edge is taken only on the trigger name 'cancel': a call
\* without a trigger name, or with another trigger name, on a loan that is
\* not CANCELLED never leaves it CANCELLED, whatever its state.
C16_CancelOnlyOnCancel ==
    loan.state # "CANCELLED" =>
        \A kw \in Kwargs :
            kw.trigger # "cancel" => Call(kw).loan.state # "CANCELLED"

C16_Witness ==
    /\ outcome.src = "ITEM_IN_TRANSIT_TO_HOUSE"
    /\ outcome.trigger = NoTrigger
    /\ outcome.status = "ok"
    /\ outcome.tried = <<1>>
    /\ loan.state = "ITEM_RETURNED"

\* C17: a call with trigger name 'request' on a CREATED loan succeeds and
\* leaves it PENDING; when neither the loan nor the call has a
\* pickup_location_pid it becomes the location the retriever returns for
\* the loan's item, and a pickup_location_pid that was supplied (in the call,
\* or on the record when the call names none) is kept as it is.
C17_RequestSetsPickup ==
    loan.state = "CREATED" =>
        \A kw \in Kwargs :
            kw.trigger = "request" =>
                LET r == Call(kw)
                IN  /\ r.status = "ok"
                    /\ r.loan.state = "PENDING"
                    /\ r.loan.pickup_location_pid =
                           IF kw.pickup_location_pid # NoLocation
                           THEN kw.pickup_location_pid
                           ELSE IF loan.pickup_location_pid # NoLocation
                           THEN loan.pickup_location_pid
                           ELSE item_location_retriever(item_location,
                                                        loan.item_pid)

C17_Witness ==
    /\ outcome.src = "CREATED"
    /\ outcome.trigger = "request"
    /\ outcome.status = "ok"
    /\ loan.state = "PENDING"
    /\ item_location = "loc_b"
    /\ loan.pickup_location_pid = "loc_b"

\* the states whose automatic edge is declared without a transition class,
\* and where that edge leads
DefaultEdgeStates == {"ITEM_IN_TRANSIT_FOR_PICKUP", "ITEM_IN_TRANSIT_TO_HOUSE"}
DefaultEdgeDest(s) ==
    IF s = "ITEM_IN_TRANSIT_FOR_PICKUP" THEN "ITEM_AT_DESK" ELSE "ITEM_RETURNED"

\* C18, as claimed: an edge declared without custom behaviour accepts every
\* call without a trigger name and changes only the state of the loan:
\* start_date, end_date, pickup_location_pid and item_pid are what they were
\* before the call.
C18_DefaultEdgeOnlyState ==
    loan.state \in DefaultEdgeStates =>
        \A kw \in Kwargs :
            kw.trigger = NoTrigger =>
                LET r == Call(kw)
                IN  /\ r.status = "ok"
                    /\ r.loan.state = DefaultEdgeDest(loan.state)
                    /\ r.loan.start_date = loan.start_date
                    /\ r.loan.end_date = loan.end_date
                    /\ r.loan.pickup_location_pid = loan.pickup_location_pid
                    /\ r.loan.item_pid = loan.item_pid

\* C18, amended: an edge declared without custom behaviour accepts every
\* call without a trigger name, sets the state of the loan and stores the
\* arguments of the call on the record: start_date, end_date and
\* pickup_location_pid take the value the call passes, and a field the call
\* does not pass (item_pid among them) is what it was before the call.
C18_DefaultEdgeStoresCall ==
    loan.state \in DefaultEdgeStates =>
        \A kw \in Kwargs :
            kw.trigger = NoTrigger =>
                LET r == Call(kw)
                IN  /\ r.status = "ok"
                    /\ r.loan.state = DefaultEdgeDest(loan.state)
                    /\ r.loan.start_date =
                           IF kw.start_date # NoDate
                           THEN kw.start_date ELSE loan.start_date
                    /\ r.loan.end_date =
                           IF kw.end_date # NoDate
                           THEN kw.end_date ELSE loan.end_date
                    /\ r.loan.pickup_location_pid =
                           IF kw.pickup_location_pid # NoLocation
                           THEN kw.pickup_location_pid
                           ELSE loan.pickup_location_pid
                    /\ r.loan.item_pid = loan.item_pid

C18_Witness ==
    /\ outcome.src = "ITEM_IN_TRANSIT_TO_HOUSE"
    /\ outcome.trigger = NoTrigger
    /\ outcome.status = "ok"
    /\ outcome.applied = <<1>>
    /\ loan.state = "ITEM_RETURNED"
    /\ loan.start_date = DateStr(0, "basic")
    /\ loan.end_date = DateStr(DayStep, "iso")
    /\ loan.transaction_date = DateStr(0, "iso")

\* the states of the loans the item has
ItemLoanStates == {loans[i].state : i \in DOMAIN loans}

\* C13: the item is available if and only if it has no loan or every one
\* of its loans is ITEM_RETURNED or CANCELLED; a loan that is PENDING,
\* ITEM_ON_LOAN, ITEM_IN_TRANSIT_FOR_PICKUP or ITEM_AT_DESK makes it
\* unavailable.
C13_AvailableIffLoansClosed ==
    /\ api_is_item_available(loans, "item_pid")
           <=> ItemLoanStates \subseteq {"ITEM_RETURNED", "CANCELLED"}
    /\ ItemLoanStates \cap {"PENDING", "ITEM_ON_LOAN",
                             "ITEM_IN_TRANSIT_FOR_PICKUP", "ITEM_AT_DESK"} # {}
           => ~api_is_item_available(loans, "item_pid")

\* a configuration has a key, or a destination, that is no loan state
HasUnknownState(cfg) ==
    \/ ~(DOMAIN cfg \subseteq LoanStates)
    \/ \E s \in DOMAIN cfg :
           \E i \in 1 .. Len(cfg[s]) : cfg[s][i].dest \notin LoanStates

\* a configuration has a transition spec whose source key, or whose
\* destination, is no loan state
HasUnknownStateInSpec(cfg) ==
    \E s \in DOMAIN cfg :
        \E i \in 1 .. Len(cfg[s]) :
            s \notin LoanStates \/ cfg[s][i].dest \notin LoanStates

\* no trigger call has been entered on any loan
NoCallEntered ==
    \A i \in DOMAIN loans : calls[i].pc = "idle" /\ loans[i] = NewLoan

\* C19, as claimed: the construction of the table fails when the
\* configuration has a destination or a source key that is not one of the
\* eight loan states, and trigger never runs on an engine that was not
\* built.
C19_UnknownStateNeverBuilt ==
    /\ (HasUnknownState(engine.config) /\ engine.status # "none")
           => engine.status = "failed"
    /\ engine.status # "built" => NoCallEntered

\* C19, amended: the construction of the table fails exactly when some
\* transition spec names a destination, or stands under a source key, that
\* is not one of the eight loan states; a source key without specs is taken
\* into the table whatever its name; trigger never runs on an engine that
\* was not built.
C19_UnknownStateInSpecNeverBuilt ==
    /\ (HasUnknownStateInSpec(engine.config) /\ engine.status # "none")
           => engine.status = "failed"
    /\ (~HasUnknownStateInSpec(engine.config) /\ engine.status # "none")
           => /\ engine.status = "built"
              /\ DOMAIN engine.transitions = DOMAIN engine.config
    /\ engine.status # "built" => NoCallEntered

C19_Witness ==
    /\ engine.config = Config_UnknownSource
    /\ engine.status = "failed"
    /\ DOMAIN loans = LoanIds

\* C20: no trigger call changes the table of the engine, and a call that
\* has ended, whatever the calls on the other loans did meanwhile, has ended
\* with the status and has left its loan with the fields that the same call
\* gives when it runs alone from entry to end.
C20_InterleavedAsAlone ==
    /\ engine.status = "built"
           => engine.transitions = Circulation_init(engine.config).transitions
    /\ \A i \in DOMAIN loans :
           calls[i].pc = "done" =>
               LET r == trigger(calls[i].before, calls[i].kw, item_location)
               IN  /\ calls[i].status = r.status
                   /\ loans[i] = r.loan

C20_Witness ==
    /\ DOMAIN loans = LoanIds
    /\ calls["loan_1"].pc = "done"
    /\ calls["loan_1"].status = "ok"
    /\ calls["loan_1"].next = 2
    /\ calls["loan_1"].overlapped
    /\ calls["loan_2"].pc = "running"
    /\ calls["loan_2"].next = 2
    /\ calls["loan_2"].overlapped
    /\ loans["loan_1"].state = "ITEM_IN_TRANSIT_TO_HOUSE"

\* the longest path of the state graph: CREATED, PENDING,
\* ITEM_IN_TRANSIT_FOR_PICKUP, ITEM_AT_DESK, ITEM_ON_LOAN,
\* ITEM_IN_TRANSIT_TO_HOUSE, ITEM_RETURNED
MaxTransitions == 6

\* C21: a loan never returns to a state it has left (the states it has left
\* are all different and its state is none of them), and a loan that started
\* CREATED has made at most 6 successful transitions; once it has made 6 no
\* further call succeeds.
C21_NoStateRevisited ==
    /\ \A i \in DOMAIN history : history[i] # loan.state
    /\ \A i, j \in DOMAIN history : i # j => history[i] # history[j]
    /\ Len(history) <= MaxTransitions
    /\ Len(history) = MaxTransitions =>
           \A kw \in Kwargs : Call(kw).status # "ok"

C21_Witness ==
    /\ history = <<"CREATED", "PENDING", "ITEM_IN_TRANSIT_FOR_PICKUP",
                   "ITEM_AT_DESK">>
    /\ loan.state = "CANCELLED"
    /\ outcome.status = "NoValidTransitionAvailable"

\* the call trigger(loan, **kw2) made right after trigger(loan, **kw1), the
\* item being where it was
CallAfter(kw1, kw2) == trigger(Call(kw1).loan, kw2, item_location)

\* a request that names no pickup location, on a loan that has none
RequestsWithoutPickup ==
    {kw \in Kwargs : /\ kw.trigger = "request"
                     /\ kw.pickup_location_pid = NoLocation}

\* C22, as claimed: when a CREATED loan is requested without a
\* pickup_location_pid and the item stays where it is, the next call without
\* a trigger name succeeds and moves the loan to ITEM_AT_DESK, never to
\* ITEM_IN_TRANSIT_FOR_PICKUP.
C22_DerivedPickupMeansAtDesk ==
    (loan.state = "CREATED" /\ loan.pickup_location_pid = NoLocation) =>
        \A kw1 \in RequestsWithoutPickup :
            \A kw2 \in Kwargs :
                kw2.trigger = NoTrigger =>
                    LET r == CallAfter(kw1, kw2)
                    IN  /\ r.status = "ok"
                        /\ r.loan.state = "ITEM_AT_DESK"

\* C22, amended: when a CREATED loan is requested without a
\* pickup_location_pid and the item stays where it is, the next call without
\* a trigger name succeeds; it moves the loan to ITEM_AT_DESK when it names
\* no pickup_location_pid or the item's own location, and to
\* ITEM_IN_TRANSIT_FOR_PICKUP when it names another pickup location.
C22_DerivedPickupUnlessRenamed ==
    (loan.state = "CREATED" /\ loan.pickup_location_pid = NoLocation) =>
        \A kw1 \in RequestsWithoutPickup :
            \A kw2 \in Kwargs :
                kw2.trigger = NoTrigger =>
                    LET r == CallAfter(kw1, kw2)
                        same == kw2.pickup_location_pid
                                    \in {NoLocation, item_location}
                    IN  /\ r.status = "ok"
                        /\ r.loan.state = IF same
                                          THEN "ITEM_AT_DESK"
                                          ELSE "ITEM_IN_TRANSIT_FOR_PICKUP"

C22_Witness ==
    /\ history = <<"CREATED", "PENDING">>
    /\ outcome.src = "PENDING"
    /\ outcome.trigger = NoTrigger
    /\ outcome.status = "ok"
    /\ loan.state = "ITEM_AT_DESK"
    /\ item_location = "loc_b"
    /\ loan.pickup_location_pid = "loc_b"

====
